---- MODULE Spec2Model ----
(***************************************************************************)
(* The streaming response renderer of the chat bot:                        *)
(*   bot/utils.py        split_into_chunks, get_stream_cutoff_values,      *)
(*                       edit_message_with_retry, is_direct_result,        *)
(*                       handle_direct_result,                             *)
(*                       add_chat_request_to_usage_tracker                 *)
(*   bot/telegram_bot.py ChatGPTTelegramBot.prompt (the streaming loop)    *)
(*                                                                         *)
(* Texts.  The backend yields the cumulative answer, so every content of   *)
(* one stream is a prefix answer[0:n] of the same answer, and every text   *)
(* the loop derives from it is a Python slice answer[lo:hi].  A text is    *)
(* the record [lit, lo, hi]: lit = "" for the slice answer[lo:hi] (the     *)
(* empty string is [lit |-> "", lo |-> 0, hi |-> 0]), any other lit for a  *)
(* literal of the program (the "..." placeholder, the chat_fail message),  *)
(* whose length is hi - lo as well.                                        *)
(***************************************************************************)
EXTENDS Integers, Sequences, FiniteSets, TLC

VARIABLES
    call,            \* pure-function harness: the function applied and its arguments
    ret,             \* pure-function harness: the value returned
    update,          \* the Telegram update: chat type (group or private)
    leading_ws,      \* number of leading whitespace characters of the answer
    stream,          \* stream items consumed so far, in order
    stream_open,     \* FALSE once the generator is exhausted, has raised or was abandoned
    pc,              \* the await the coroutine is suspended at
    i,               \* prompt: i
    prev,            \* prompt: prev
    sent_message,    \* prompt: sent_message (0 is None, else the message id)
    backoff,         \* prompt: backoff
    stream_chunk,    \* prompt: stream_chunk
    total_tokens,    \* prompt: total_tokens
    is_image,        \* prompt: is_image
    content,         \* prompt: content of the item being processed
    edit_args,       \* edit_message_with_retry: text and markdown of the call in progress
    caught,          \* the exception the driver is handling (sleep after it, or chat_fail)
    msgs,            \* transport: the text messages of the chat, by message id
    ops,             \* transport: every call handed to the transport, in order
    faults,          \* transport failures and cancellations injected so far
    reports,         \* usage ledger: add_chat_tokens / add_image_request calls, in order
    outcome,         \* how prompt() ended
    cancelled,       \* a cancellation was delivered to the task
    cancel_mark,     \* [pos, nops] at the moment the cancellation was delivered
    usage,           \* self.usage: the usage tracker of each key (user id or "guests")
    tasks,           \* concurrent handler tasks: where each is suspended, and its locals
    inline_queries_cache  \* self.inline_queries_cache: the query stored under each result id

harness_vars == <<call, ret>>

driver_vars == <<update, leading_ws, stream, stream_open, pc, i, prev, sent_message,
                 backoff, stream_chunk, total_tokens, is_image, content,
                 edit_args, caught, msgs, ops, faults, reports, outcome,
                 cancelled, cancel_mark>>

ledger_vars == <<usage, tasks>>

vars == <<inline_queries_cache, usage, tasks, call, ret, update, leading_ws, stream, stream_open, pc, i, prev, sent_message,
          backoff, stream_chunk, total_tokens, is_image, content,
          edit_args, caught, msgs, ops, faults, reports, outcome,
          cancelled, cancel_mark>>

\* ---------------------------------------------------------------- bounds

\* longest text of the split_into_chunks harness
MaxLen == 5
\* largest chunk size of the split_into_chunks harness
MaxChunk == 4
\* longest content of the get_stream_cutoff_values harness
MaxCutoffLen == 1100
\* stream items consumed by one run of the driver
MaxItems == 3
\* transport failures and cancellations injected in one run of the driver
MaxFaults == 1

Min(a, b) == IF a < b THEN a ELSE b

Abs(x) == IF x < 0 THEN 0 - x ELSE x

\* ---------------------------------------------------------------- texts

\* text[a:b] of Python for 0 <= a <= b
PySlice(text, a, b) ==
    LET lo == Min(text.lo + a, text.hi)
        hi == Min(text.lo + b, text.hi)
    IN  IF lo >= hi THEN [lit |-> "", lo |-> 0, hi |-> 0]
        ELSE [lit |-> text.lit, lo |-> lo, hi |-> hi]

\* len(text)
len(text) == text.hi - text.lo

\* ""
EmptyText == [lit |-> "", lo |-> 0, hi |-> 0]

\* the cumulative answer after n characters: answer[0:n]
Prefix(n) == IF n = 0 THEN EmptyText ELSE [lit |-> "", lo |-> 0, hi |-> n]

\* the "..." placeholder of the overflow send
Dots == [lit |-> "...", lo |-> 0, hi |-> 3]

\* ---------------------------------------------------------------- utils.py

\* mutant: the range step is one short, so that chunks overlap
split_into_chunks_overlap(text, chunk_size) ==
    LET step == IF chunk_size > 1 THEN chunk_size - 1 ELSE 1
        n == (len(text) + step - 1) \div step
    IN  [k \in 1..n |-> PySlice(text, (k - 1) * step, (k - 1) * step + chunk_size)]

\* mutant: the text is not split
split_into_chunks_whole(text, chunk_size) ==
    IF len(text) = 0 THEN <<>> ELSE <<text>>

\* [text[i: i + chunk_size] for i in range(0, len(text), chunk_size)]
split_into_chunks(text, chunk_size) ==
    LET n == (len(text) + chunk_size - 1) \div chunk_size
    IN  [k \in 1..n |-> PySlice(text, (k - 1) * chunk_size, (k - 1) * chunk_size + chunk_size)]

\* default value of split_into_chunks' chunk_size
chunk_size_default == 4096

\* update.effective_chat.type in [GROUP, SUPERGROUP]; "none" is no effective chat
is_group_chat(upd) ==
    IF upd.chat_type = "none" THEN FALSE
    ELSE upd.chat_type \in {"group", "supergroup"}

\* mutant: the two middle tiers of the private chat swapped
get_stream_cutoff_values_swapped(upd, text) ==
    IF is_group_chat(upd)
    THEN IF len(text) > 1000 THEN 180
         ELSE IF len(text) > 200 THEN 120 ELSE IF len(text) > 50 THEN 90 ELSE 50
    ELSE IF len(text) > 1000 THEN 90
         ELSE IF len(text) > 200 THEN 25 ELSE IF len(text) > 50 THEN 45 ELSE 15

get_stream_cutoff_values(upd, text) ==
    IF is_group_chat(upd)
    THEN IF len(text) > 1000 THEN 180
         ELSE IF len(text) > 200 THEN 120 ELSE IF len(text) > 50 THEN 90 ELSE 50
    ELSE IF len(text) > 1000 THEN 90
         ELSE IF len(text) > 200 THEN 45 ELSE IF len(text) > 50 THEN 25 ELSE 15

\* ---------------------------------------------------------------- the driver at rest

ChatTypes == {"private", "group", "supergroup", "none"}

NoCall == [fn |-> "none"]

DriverIdle ==
    /\ update = [chat_type |-> "private", guest |-> FALSE]
    /\ leading_ws = 0
    /\ stream = <<>>
    /\ stream_open = TRUE
    /\ pc = "idle"
    /\ i = 0
    /\ prev = EmptyText
    /\ sent_message = 0
    /\ backoff = 0
    /\ stream_chunk = 0
    /\ total_tokens = 0
    /\ is_image = FALSE
    /\ content = EmptyText
    /\ edit_args = [text |-> EmptyText, markdown |-> FALSE]
    /\ caught = [type |-> "none", retry_after |-> 0]
    /\ msgs = <<>>
    /\ ops = <<>>
    /\ faults = 0
    /\ reports = <<>>
    /\ outcome = "none"
    /\ cancelled = FALSE
    /\ cancel_mark = [pos |-> 0, nops |-> 0]

\* ---------------------------------------------------------------- the ledger at rest

Users == {"u1", "u2"}

\* the keys of self.usage
UsageKeys == Users \cup {"guests"}

NoTracker == [present |-> FALSE, chat_tokens |-> 0]

\* self.usage = {}, self.inline_queries_cache = {} and no handler task
LedgerIdle ==
    /\ usage = [k \in UsageKeys |-> NoTracker]
    /\ tasks = <<>>
    /\ inline_queries_cache = <<>>

\* ---------------------------------------------------------------- split_into_chunks applied

Alphabet == {"a", "b"}

\* the characters of a slice of chars
Chars(chars, text) == SubSeq(chars, text.lo + 1, text.hi)

RECURSIVE Concat(_)
Concat(seqs) == IF seqs = <<>> THEN <<>> ELSE Head(seqs) \o Concat(Tail(seqs))

CharTexts == UNION {[1..n -> Alphabet] : n \in 0..MaxLen}

InitSplit ==
    /\ call = NoCall
    /\ ret = <<>>
    /\ DriverIdle
    /\ LedgerIdle

\* chunks = split_into_chunks(C, N), for a text C and a chunk size N > 0
CallSplit ==
    /\ \E chars \in CharTexts, n \in 1..MaxChunk :
          /\ call' = [fn |-> "split_into_chunks", text |-> chars, chunk_size |-> n]
          /\ ret' = LET chunks == split_into_chunks(Prefix(Len(chars)), n)
                    IN  [k \in 1..Len(chunks) |-> Chars(chars, chunks[k])]
    /\ UNCHANGED driver_vars
    /\ UNCHANGED inline_queries_cache
    /\ UNCHANGED ledger_vars

NextSplit == CallSplit

SpecSplit == InitSplit /\ [][NextSplit]_vars

\* ---------------------------------------------------------------- get_stream_cutoff_values applied

InitCutoff ==
    /\ call = NoCall
    /\ ret = 0
    /\ DriverIdle
    /\ LedgerIdle

\* cutoff = get_stream_cutoff_values(update, content), for the contents of a chat
\* in the order of their lengths
CallCutoff ==
    /\ \E t \in ChatTypes, n \in 0..MaxCutoffLen :
          /\ \/ call.fn = "none" /\ n = 0
             \/ call.fn = "get_stream_cutoff_values" /\ t = call.chat_type
                  /\ n = call.length + 1
          /\ call' = [fn |-> "get_stream_cutoff_values", chat_type |-> t, length |-> n]
          /\ ret' = get_stream_cutoff_values([chat_type |-> t, guest |-> FALSE], Prefix(n))
    /\ UNCHANGED driver_vars
    /\ UNCHANGED inline_queries_cache
    /\ UNCHANGED ledger_vars

NextCutoff == CallCutoff

SpecCutoff == InitCutoff /\ [][NextCutoff]_vars

\* ---------------------------------------------------------------- the stream

\* tokens of an item that does not end the stream ("not_finished")
not_finished == 0 - 1

TokenCounts == {0, 12}

\* lengths of the cumulative contents the backend yields
ContentLens == {0, 9, 10, 11, 30, 4097, 8193}

DirectKinds == {"photo", "gif", "file", "dice"}

DirectFormats == {"url", "path"}

TextContent(n) == [direct_result |-> FALSE, kind |-> "", format |-> "", text |-> Prefix(n)]

DirectContent(kind, format) ==
    [direct_result |-> TRUE, kind |-> kind, format |-> format, text |-> EmptyText]

\* the (content, tokens, image_used) triples of get_chat_response_stream
Items ==
    [content : {TextContent(n) : n \in ContentLens},
     tokens : {not_finished},
     image_used : {FALSE}]
    \cup
    [content : {TextContent(n) : n \in ContentLens},
     tokens : TokenCounts,
     image_used : BOOLEAN]
    \cup
    [content : {DirectContent(k, f) : k \in DirectKinds, f \in DirectFormats},
     tokens : {not_finished},
     image_used : {FALSE}]

\* the item being processed
item == stream[Len(stream)]

tokens == item.tokens

\* no item with a token count, which ends the stream, was yielded yet
Unfinished == IF stream = <<>> THEN TRUE ELSE tokens = not_finished

\* the content is cumulative: a text item is no shorter than the text items before it
CanFollow(it) ==
    \A k \in 1..Len(stream) :
        (~it.content.direct_result /\ ~stream[k].content.direct_result)
            => len(stream[k].content.text) <= len(it.content.text)

\* mutant: no content is recognised as a direct result
is_direct_result_never(response) == FALSE

\* json.loads(response).get("direct_result", False)
is_direct_result(response) == response.direct_result

\* mutant: the length of the content as it is, whitespace included
strip_len_raw(text) == text.hi

\* len(content.strip()): the answer starts with leading_ws whitespace characters
strip_len(text) == IF text.hi <= leading_ws THEN 0 ELSE text.hi - leading_ws

\* ---------------------------------------------------------------- the transport

RetryAfterSeconds == {5}

\* the exceptions the loop tells apart, raised by edit_message_text
EditFailures == {"RetryAfter", "TimedOut", "BadRequest", "Error"}

\* any exception of a call whose handler does not look at its type
OtherFailures == {"Error"}

NoError == [type |-> "none", retry_after |-> 0]

\* how one transport call can end: success, or a failure while the fault budget lasts
Outcomes(failures) ==
    {NoError} \cup
    IF faults < MaxFaults
    THEN {[type |-> f, retry_after |-> IF f = "RetryAfter" THEN r ELSE 0] :
             f \in failures, r \in RetryAfterSeconds}
    ELSE {}

Fault(out) == IF out.type = "none" THEN 0 ELSE 1

\* ops after a call made while item k is processed (k = 0: outside the loop)
LoggedAt(k, op, msg, text, arg, res) ==
    Append(ops, [op |-> op, msg |-> msg, text |-> text, arg |-> arg, res |-> res,
                 item |-> k])

Logged(op, msg, text, arg, res) == LoggedAt(Len(stream), op, msg, text, arg, res)

\* answer of bot.edit_message_text(message_id, text)
EditResult(msg, text, out) ==
    IF out.type # "none" THEN out.type
    ELSE IF msgs[msg].deleted THEN "BadRequest"
    ELSE IF msgs[msg].text = text THEN "NotModified"
    ELSE "ok"

Edited(msg, text, res) == IF res = "ok" THEN [msgs EXCEPT ![msg].text = text] ELSE msgs

\* answer of bot.delete_message(message_id)
DeleteResult(msg, out) ==
    IF out.type # "none" THEN out.type
    ELSE IF msgs[msg].deleted THEN "BadRequest"
    ELSE "ok"

\* the chat after reply_text(text)
Sent(text) == Append(msgs, [text |-> text, deleted |-> FALSE])

\* ---------------------------------------------------------------- edit_message_with_retry

\* mutant: the "Message is not modified" answer is raised like any other BadRequest
edit_message_with_retry_strict(attempt, res) ==
    IF attempt = 1
    THEN IF res = "ok" THEN "return"
         ELSE IF res \in {"BadRequest", "NotModified"} THEN "plain"
         ELSE "raise"
    ELSE IF res = "ok" THEN "return" ELSE "raise"

\* what edit_message_with_retry does with the answer of its first (markdown) and of its
\* second (plain) edit_message_text: return, try again without parse mode, or raise
edit_message_with_retry(attempt, res) ==
    IF attempt = 1
    THEN IF res \in {"ok", "NotModified"} THEN "return"
         ELSE IF res = "BadRequest" THEN "plain"
         ELSE "raise"
    ELSE IF res = "ok" THEN "return" ELSE "raise"

\* the exception edit_message_with_retry raises for an answer ("Message is not modified"
\* is a BadRequest)
Raised(res, out) ==
    [type |-> IF res = "NotModified" THEN "BadRequest" ELSE res, retry_after |-> out.retry_after]

\* ---------------------------------------------------------------- prompt: the streaming loop

\* the fixed step added to backoff after a failed edit
backoff_step == 5

\* asyncio.sleep arguments, in milliseconds
sleep_timed_out == 500

sleep_after_edit == 10

\* mutant: the failure text without the message of the exception
chat_fail_bare(e) == [lit |-> "chat_fail", err |-> "", lo |-> 0, hi |-> 1]

\* f"{localized_text('chat_fail', bot_language)} {str(e)}": the failure text carries
\* the message of the exception, which is all that tells two exceptions apart here
chat_fail(e) == [lit |-> "chat_fail", err |-> e.type, lo |-> 0, hi |-> 1]

\* a text is the failure text of some exception
IsFailText(text) == text.lit = "chat_fail"

Init ==
    /\ call = NoCall
    /\ ret = 0
    /\ update \in {[chat_type |-> "private", guest |-> FALSE],
                   [chat_type |-> "group", guest |-> TRUE]}
    /\ leading_ws \in {0, 9}
    /\ stream = <<>>
    /\ stream_open = TRUE
    /\ pc = "typing"
    /\ i = 0
    /\ prev = EmptyText
    /\ sent_message = 0
    /\ backoff = 0
    /\ stream_chunk = 0
    /\ total_tokens = 0
    /\ is_image = FALSE
    /\ content = EmptyText
    /\ edit_args = [text |-> EmptyText, markdown |-> FALSE]
    /\ caught = NoError
    /\ msgs = <<>>
    /\ ops = <<>>
    /\ faults = 0
    /\ reports = <<>>
    /\ outcome = "none"
    /\ cancelled = FALSE
    /\ cancel_mark = [pos |-> 0, nops |-> 0]
    /\ LedgerIdle

\* await reply_chat_action(TYPING), then the stream is opened
Typing ==
    /\ pc = "typing"
    /\ \E out \in Outcomes(OtherFailures) :
          /\ faults' = faults + Fault(out)
          /\ ops' = LoggedAt(0, "chat_action", 0, EmptyText, 0,
                            IF out.type = "none" THEN "ok" ELSE out.type)
          /\ IF out.type = "none"
             THEN pc' = "next" /\ UNCHANGED caught
             ELSE pc' = "fail_reply" /\ caught' = out
    /\ UNCHANGED <<inline_queries_cache, usage, tasks, call, ret, update, leading_ws, stream, stream_open, i, prev, sent_message,
                   backoff, stream_chunk, total_tokens, is_image, content, edit_args,
                   msgs, reports, outcome, cancelled, cancel_mark>>

\* mutant: the token count of the finished item is not kept
Advance_no_total(tok) ==
    /\ i' = i + 1
    /\ total_tokens' = total_tokens
    /\ pc' = "next"

\* i += 1; if tokens != "not_finished": total_tokens = float(tokens)
Advance(tok) ==
    /\ i' = i + 1
    /\ total_tokens' = IF tok # not_finished THEN tok ELSE total_tokens
    /\ pc' = "next"

\* the loop body for the item just yielded, up to its first await
Process(it) ==
    LET stream_chunks == split_into_chunks(it.content.text, chunk_size_default)
        n == Len(stream_chunks)
        c == IF n > 1 THEN stream_chunks[n] ELSE it.content.text
        cutoff == get_stream_cutoff_values(update, c) + backoff
    IN  /\ is_image' = (is_image \/ it.image_used)
        /\ IF is_direct_result(it.content)
           THEN /\ pc' = "direct"
                /\ UNCHANGED <<i, prev, stream_chunk, total_tokens, content, edit_args>>
           ELSE IF strip_len(it.content.text) = 0
           THEN /\ pc' = "next"
                /\ UNCHANGED <<i, prev, stream_chunk, total_tokens, content, edit_args>>
           ELSE IF n > 1 /\ stream_chunk # n - 1
           THEN /\ content' = c
                /\ stream_chunk' = stream_chunk + 1
                /\ IF sent_message = 0
                   THEN pc' = "ovf_send" /\ UNCHANGED edit_args
                   ELSE /\ pc' = "ovf_edit"
                        /\ edit_args' = [text |-> stream_chunks[n - 1], markdown |-> TRUE]
                /\ UNCHANGED <<i, prev, total_tokens>>
           ELSE IF i = 0
           THEN /\ content' = c
                /\ pc' = IF sent_message # 0 THEN "first_delete" ELSE "first_send"
                /\ UNCHANGED <<i, prev, stream_chunk, total_tokens, edit_args>>
           ELSE IF Abs(len(c) - len(prev)) > cutoff \/ it.tokens # not_finished
           THEN /\ content' = c
                /\ prev' = c
                /\ edit_args' = [text |-> c, markdown |-> (it.tokens # not_finished)]
                /\ pc' = "cad_edit"
                /\ UNCHANGED <<i, stream_chunk, total_tokens>>
           ELSE /\ content' = c
                /\ Advance(it.tokens)
                /\ UNCHANGED <<prev, stream_chunk, edit_args>>

\* async for content, tokens, image_used in stream_response: the next item arrives
NextItem ==
    /\ pc = "next"
    /\ stream_open
    /\ Len(stream) < MaxItems
    /\ Unfinished
    /\ \E it \in Items :
          /\ CanFollow(it)
          /\ stream' = Append(stream, it)
          /\ Process(it)
    /\ UNCHANGED <<inline_queries_cache, usage, tasks, call, ret, update, leading_ws, stream_open, sent_message, backoff, caught,
                   msgs, ops, faults, reports, outcome, cancelled, cancel_mark>>

\* edit_message_with_retry(sent_message, stream_chunks[-2]) of the overflow branch:
\* whatever it raises is swallowed ("except: pass")
OvfEdit ==
    /\ pc \in {"ovf_edit", "ovf_edit2"}
    /\ \E out \in Outcomes(EditFailures) :
          LET attempt == IF pc = "ovf_edit" THEN 1 ELSE 2
              res == EditResult(sent_message, edit_args.text, out)
              step == edit_message_with_retry(attempt, res)
          IN  /\ faults' = faults + Fault(out)
              /\ msgs' = Edited(sent_message, edit_args.text, res)
              /\ ops' = Logged("edit", sent_message, edit_args.text,
                               IF attempt = 1 /\ edit_args.markdown THEN 1 ELSE 0, res)
              /\ pc' = IF step = "plain" THEN "ovf_edit2" ELSE "ovf_send"
    /\ UNCHANGED <<inline_queries_cache, usage, tasks, call, ret, update, leading_ws, stream, stream_open, i, prev, sent_message,
                   backoff, stream_chunk, total_tokens, is_image, content, edit_args,
                   caught, reports, outcome, cancelled, cancel_mark>>

\* mutant: the message the overflow branch sends is not kept in sent_message
OvfSend_forgets ==
    /\ pc = "ovf_send"
    /\ \E out \in Outcomes(OtherFailures) :
          LET text == IF len(content) > 0 THEN content ELSE Dots
          IN  /\ faults' = faults + Fault(out)
              /\ IF out.type = "none"
                 THEN /\ msgs' = Sent(text)
                      /\ sent_message' = sent_message
                      /\ ops' = Logged("send", Len(msgs) + 1, text, 0, "ok")
                 ELSE /\ ops' = Logged("send", 0, text, 0, out.type)
                      /\ UNCHANGED <<msgs, sent_message>>
              /\ pc' = "next"
    /\ UNCHANGED <<inline_queries_cache, usage, tasks, call, ret, update, leading_ws, stream, stream_open, i, prev,
                   backoff, stream_chunk, total_tokens, is_image, content, edit_args,
                   caught, reports, outcome, cancelled, cancel_mark>>

\* reply_text(content if len(content) > 0 else "...") of the overflow branch, then continue
OvfSend ==
    /\ pc = "ovf_send"
    /\ \E out \in Outcomes(OtherFailures) :
          LET text == IF len(content) > 0 THEN content ELSE Dots
          IN  /\ faults' = faults + Fault(out)
              /\ IF out.type = "none"
                 THEN /\ msgs' = Sent(text)
                      /\ sent_message' = Len(msgs) + 1
                      /\ ops' = Logged("send", Len(msgs) + 1, text, 0, "ok")
                 ELSE /\ ops' = Logged("send", 0, text, 0, out.type)
                      /\ UNCHANGED <<msgs, sent_message>>
              /\ pc' = "next"
    /\ UNCHANGED <<inline_queries_cache, usage, tasks, call, ret, update, leading_ws, stream, stream_open, i, prev,
                   backoff, stream_chunk, total_tokens, is_image, content, edit_args,
                   caught, reports, outcome, cancelled, cancel_mark>>

\* i == 0 and a message is already there: delete_message(sent_message) before the send
FirstDelete ==
    /\ pc = "first_delete"
    /\ \E out \in Outcomes(OtherFailures) :
          LET res == DeleteResult(sent_message, out)
          IN  /\ faults' = faults + Fault(out)
              /\ ops' = Logged("delete", sent_message, EmptyText, 0, res)
              /\ IF res = "ok"
                 THEN /\ msgs' = [msgs EXCEPT ![sent_message].deleted = TRUE]
                      /\ pc' = "first_send"
                 ELSE /\ pc' = "next"
                      /\ UNCHANGED msgs
    /\ UNCHANGED <<inline_queries_cache, usage, tasks, call, ret, update, leading_ws, stream, stream_open, i, prev, sent_message,
                   backoff, stream_chunk, total_tokens, is_image, content, edit_args,
                   caught, reports, outcome, cancelled, cancel_mark>>

\* i == 0: sent_message = reply_text(content); a failure skips the item ("except: continue")
FirstSend ==
    /\ pc = "first_send"
    /\ \E out \in Outcomes(OtherFailures) :
          /\ faults' = faults + Fault(out)
          /\ IF out.type = "none"
             THEN /\ msgs' = Sent(content)
                  /\ sent_message' = Len(msgs) + 1
                  /\ ops' = Logged("send", Len(msgs) + 1, content, 0, "ok")
                  /\ Advance(tokens)
             ELSE /\ ops' = Logged("send", 0, content, 0, out.type)
                  /\ pc' = "next"
                  /\ UNCHANGED <<msgs, sent_message, i, total_tokens>>
    /\ UNCHANGED <<inline_queries_cache, usage, tasks, call, ret, update, leading_ws, stream, stream_open, prev,
                   backoff, stream_chunk, is_image, content, edit_args,
                   caught, reports, outcome, cancelled, cancel_mark>>

\* mutant: no "except Exception" clause, so that an exception that is neither RetryAfter
\* nor TimedOut leaves the loop
OnEditRaised_escapes(exc) ==
    /\ caught' = exc
    /\ IF exc.type \in {"RetryAfter", "TimedOut"}
       THEN /\ backoff' = backoff + backoff_step
            /\ pc' = IF exc.type = "RetryAfter" THEN "sleep_retry" ELSE "sleep_timeout"
       ELSE /\ backoff' = backoff
            /\ pc' = "fail_reply"

\* mutant: the edit is tried again after a failure instead of going on to the next item
OnEditRaised_retries(exc) ==
    /\ backoff' = backoff + backoff_step
    /\ caught' = exc
    /\ pc' = "cad_edit"

\* except RetryAfter / except TimedOut / except Exception of the cadence edit
OnEditRaised(exc) ==
    /\ backoff' = backoff + backoff_step
    /\ caught' = exc
    /\ pc' = IF exc.type = "RetryAfter" THEN "sleep_retry"
             ELSE IF exc.type = "TimedOut" THEN "sleep_timeout"
             ELSE "next"

\* edit_message_with_retry(sent_message, content, markdown=use_markdown) of the cadence branch
CadEdit ==
    /\ pc \in {"cad_edit", "cad_edit2"}
    /\ \E out \in Outcomes(EditFailures) :
          LET attempt == IF pc = "cad_edit" THEN 1 ELSE 2
              res == EditResult(sent_message, edit_args.text, out)
              step == edit_message_with_retry(attempt, res)
          IN  /\ faults' = faults + Fault(out)
              /\ msgs' = Edited(sent_message, edit_args.text, res)
              /\ ops' = Logged("edit", sent_message, edit_args.text,
                               IF attempt = 1 /\ edit_args.markdown THEN 1 ELSE 0, res)
              /\ IF step = "return" THEN pc' = "sleep_ok" /\ UNCHANGED <<backoff, caught>>
                 ELSE IF step = "plain" THEN pc' = "cad_edit2" /\ UNCHANGED <<backoff, caught>>
                 ELSE OnEditRaised(Raised(res, out))
    /\ UNCHANGED <<inline_queries_cache, usage, tasks, call, ret, update, leading_ws, stream, stream_open, i, prev, sent_message,
                   stream_chunk, total_tokens, is_image, content, edit_args,
                   reports, outcome, cancelled, cancel_mark>>

\* asyncio.sleep(e.retry_after) / asyncio.sleep(0.5), then continue;
\* asyncio.sleep(0.01) after an edit that returned, then the end of the loop body
Sleep ==
    /\ pc \in {"sleep_retry", "sleep_timeout", "sleep_ok"}
    /\ ops' = Logged("sleep", 0, EmptyText,
                     IF pc = "sleep_retry" THEN caught.retry_after * 1000
                     ELSE IF pc = "sleep_timeout" THEN sleep_timed_out
                     ELSE sleep_after_edit, "ok")
    /\ IF pc = "sleep_ok"
       THEN Advance(tokens)
       ELSE pc' = "next" /\ UNCHANGED <<i, total_tokens>>
    /\ UNCHANGED <<inline_queries_cache, usage, tasks, call, ret, update, leading_ws, stream, stream_open, prev, sent_message,
                   backoff, stream_chunk, is_image, content, edit_args, caught,
                   msgs, faults, reports, outcome, cancelled, cancel_mark>>

\* the add_chat_tokens calls of add_chat_request_to_usage_tracker(usage, config, user_id,
\* used_tokens); user_is_guest: the user is not an allowed user and usage has "guests"
add_chat_request_to_usage_tracker(user_is_guest, used_tokens) ==
    IF used_tokens = 0 THEN <<>>
    ELSE <<[who |-> "user", kind |-> "chat", tokens |-> used_tokens]>>
         \o (IF user_is_guest
             THEN <<[who |-> "guests", kind |-> "chat", tokens |-> used_tokens]>>
             ELSE <<>>)

\* the add_image_request calls after the loop
add_image_request(user_is_guest) ==
    <<[who |-> "user", kind |-> "image", tokens |-> 0]>>
    \o (IF user_is_guest THEN <<[who |-> "guests", kind |-> "image", tokens |-> 0]>> ELSE <<>>)

\* the generator is exhausted: the loop ends, then the usage is reported
StreamEnd ==
    /\ pc = "next"
    /\ stream_open
    /\ stream_open' = FALSE
    /\ reports' = reports
                  \o (IF is_image THEN add_image_request(update.guest) ELSE <<>>)
                  \o add_chat_request_to_usage_tracker(update.guest, total_tokens)
    /\ pc' = "done"
    /\ outcome' = "Rendered"
    /\ UNCHANGED <<inline_queries_cache, usage, tasks, call, ret, update, leading_ws, stream, i, prev, sent_message,
                   backoff, stream_chunk, total_tokens, is_image, content, edit_args, caught,
                   msgs, ops, faults, cancelled, cancel_mark>>

\* the generator raises: "except Exception as e" of prompt
StreamError ==
    /\ pc = "next"
    /\ stream_open
    /\ Unfinished
    /\ stream_open' = FALSE
    /\ caught' = [type |-> "Upstream", retry_after |-> 0]
    /\ pc' = "fail_reply"
    /\ UNCHANGED <<inline_queries_cache, usage, tasks, call, ret, update, leading_ws, stream, i, prev, sent_message,
                   backoff, stream_chunk, total_tokens, is_image, content, edit_args,
                   msgs, ops, faults, reports, outcome, cancelled, cancel_mark>>

\* the reply_* call handle_direct_result makes for a payload
DirectCall(kind, format) ==
    IF kind = "photo" THEN "reply_photo"
    ELSE IF kind \in {"gif", "file"} THEN "reply_document"
    ELSE "reply_dice"

\* return await handle_direct_result(config, update, content)
Direct ==
    /\ pc = "direct"
    /\ \E out \in Outcomes(OtherFailures) :
          LET payload == item.content
              op == DirectCall(payload.kind, payload.format)
              delivered == Logged(op, 0, EmptyText, 0, IF out.type = "none" THEN "ok" ELSE out.type)
          IN  /\ faults' = faults + Fault(out)
              /\ IF out.type = "none"
                 THEN /\ ops' = IF payload.format = "path"
                                THEN Append(delivered,
                                            [op |-> "cleanup", msg |-> 0, text |-> EmptyText,
                                             arg |-> 0, res |-> "ok", item |-> Len(stream)])
                                ELSE delivered
                      /\ pc' = "done"
                      /\ outcome' = "DirectResultHandled"
                      /\ UNCHANGED caught
                 ELSE /\ ops' = delivered
                      /\ pc' = "fail_reply"
                      /\ caught' = out
                      /\ UNCHANGED outcome
    /\ stream_open' = FALSE
    /\ UNCHANGED <<inline_queries_cache, usage, tasks, call, ret, update, leading_ws, stream, i, prev, sent_message,
                   backoff, stream_chunk, total_tokens, is_image, content, edit_args,
                   msgs, reports, cancelled, cancel_mark>>

\* except Exception as e: reply_text(chat_fail + str(e))
FailReply ==
    /\ pc = "fail_reply"
    /\ \E out \in Outcomes(OtherFailures) :
          /\ faults' = faults + Fault(out)
          /\ IF out.type = "none"
             THEN /\ msgs' = Sent(chat_fail(caught))
                  /\ ops' = LoggedAt(0, "send", Len(msgs) + 1, chat_fail(caught), 1, "ok")
                  /\ outcome' = "Failed"
             ELSE /\ ops' = LoggedAt(0, "send", 0, chat_fail(caught), 1, out.type)
                  /\ outcome' = "Raised"
                  /\ UNCHANGED msgs
    /\ pc' = "done"
    /\ UNCHANGED <<inline_queries_cache, usage, tasks, call, ret, update, leading_ws, stream, stream_open, i, prev, sent_message,
                   backoff, stream_chunk, total_tokens, is_image, content, edit_args, caught,
                   reports, cancelled, cancel_mark>>

\* where a CancelledError raised at an await leaves the coroutine: the bare "except:"
\* clauses of the overflow branch and of the first send catch it (pass / continue),
\* "except Exception" does not
AfterCancel(at) ==
    IF at \in {"ovf_edit", "ovf_edit2"} THEN "ovf_send"
    ELSE IF at \in {"ovf_send", "first_delete", "first_send"} THEN "next"
    ELSE "done"

\* the task is cancelled while it is suspended at an await
Cancel ==
    /\ pc # "done"
    /\ ~cancelled
    /\ faults < MaxFaults
    /\ faults' = faults + 1
    /\ cancelled' = TRUE
    /\ cancel_mark' = [pos |-> Len(stream), nops |-> Len(ops)]
    /\ pc' = AfterCancel(pc)
    /\ IF pc' = "done"
       THEN outcome' = "Cancelled" /\ stream_open' = FALSE
       ELSE UNCHANGED <<outcome, stream_open>>
    /\ UNCHANGED <<inline_queries_cache, usage, tasks, call, ret, update, leading_ws, stream, i, prev, sent_message,
                   backoff, stream_chunk, total_tokens, is_image, content, edit_args, caught,
                   msgs, ops, reports>>

Next ==
    \/ Typing
    \/ NextItem
    \/ StreamEnd
    \/ StreamError
    \/ OvfEdit
    \/ OvfSend
    \/ FirstDelete
    \/ FirstSend
    \/ CadEdit
    \/ Sleep
    \/ Direct
    \/ FailReply
    \/ Cancel

Spec == Init /\ [][Next]_vars

\* ---------------------------------------------------------------- claims

\* C1: for every text C and chunk size N > 0, the chunks of split_into_chunks(C, N)
\* concatenate to exactly C, every chunk but the last has length exactly N, and the
\* last has length between 1 and N.
C1_ChunksPartition ==
    call.fn = "split_into_chunks" =>
        /\ Concat(ret) = call.text
        /\ \A k \in 1..Len(ret) :
              IF k < Len(ret) THEN Len(ret[k]) = call.chunk_size
              ELSE Len(ret[k]) >= 1 /\ Len(ret[k]) <= call.chunk_size

\* C1 witness: a text longer than two chunks was split, with a short last chunk
C1_Witness ==
    /\ call.fn = "split_into_chunks"
    /\ Len(call.text) > 2 * call.chunk_size
    /\ Len(ret) = 3
    /\ Len(ret[3]) < call.chunk_size
    /\ call.chunk_size > 1

\* ---------------------------------------------------------------- observations of a run

IsRender(o) == o.op \in {"send", "edit"}

IsText(o) == o.op \in {"send", "edit", "delete"}

IsUserChatReport(r) == r.who = "user" /\ r.kind = "chat"

\* the sends and edits handed to the transport, in order
Renders == SelectSeq(ops, IsRender)

\* the token counts reported for the requesting user, in order
UserChatReports == SelectSeq(reports, IsUserChatReport)

\* the lengths and token signals of the items consumed
Shape == [k \in 1..Len(stream) |->
             IF stream[k].content.direct_result THEN <<0 - 1, stream[k].tokens>>
             ELSE <<len(stream[k].content.text), stream[k].tokens>>]

\* C2: for the stream "partial A" (Pending), "partial AB" (Pending), "partial ABC"
\* (Finished, 12 tokens) and no transport failure, the finished run has performed one
\* send of "partial A", then at most one intermediate edit, then one edit of
\* "partial ABC", and has reported exactly 12 tokens for the user.
C2_ThreeItemScenario ==
    (/\ Shape = <<<<9, not_finished>>, <<10, not_finished>>, <<11, 12>>>>
     /\ leading_ws = 0
     /\ faults = 0
     /\ pc = "done")
    => /\ Len(Renders) \in {2, 3}
       /\ Renders[1].op = "send" /\ Renders[1].text = Prefix(9) /\ Renders[1].res = "ok"
       /\ \A k \in 2..Len(Renders) : Renders[k].op = "edit" /\ Renders[k].msg = Renders[1].msg
       /\ Renders[Len(Renders)].text = Prefix(11)
       /\ Renders[Len(Renders)].res = "ok"
       /\ \A k \in 1..(Len(Renders) - 1) : Renders[k].text # Prefix(11)
       /\ msgs[Renders[1].msg].text = Prefix(11)
       /\ UserChatReports = <<[who |-> "user", kind |-> "chat", tokens |-> 12]>>
       /\ outcome = "Rendered"

\* C2 witness: the scenario has run to its end with the send and the final edit
C2_Witness ==
    /\ Shape = <<<<9, not_finished>>, <<10, not_finished>>, <<11, 12>>>>
    /\ leading_ws = 0
    /\ faults = 0
    /\ pc = "done"
    /\ Len(Renders) = 2
    /\ Len(UserChatReports) = 1

\* the sends, edits and deletes issued while item k was processed, in order
ItemOps(k) == SelectSeq(ops, LAMBDA o : o.item = k /\ IsText(o))

\* item k has been processed to the end of its loop iteration
Processed(k) == k < Len(stream) \/ (k = Len(stream) /\ pc \in {"next", "done"})

\* a send of the stream succeeded before item k arrived
OpenBefore(k) == \E j \in 1..Len(ops) : ops[j].op = "send" /\ ops[j].res = "ok" /\ ops[j].item < k

IsTextItem(k) == ~stream[k].content.direct_result

\* the text the loop renders for a content: its last chunk
LastChunk(text) ==
    LET stream_chunks == split_into_chunks(text, chunk_size_default)
    IN  IF Len(stream_chunks) > 1 THEN stream_chunks[Len(stream_chunks)] ELSE text

\* C3: when a message is open and the content grows from at most maxMessageSize to
\* more than maxMessageSize, the driver edits the open message to the first
\* maxMessageSize units and then sends a new message with the remainder (stated for
\* runs without transport failure or cancellation).
C3_OverflowSplit ==
    \A k \in 2..Len(stream) :
        (/\ faults = 0
         /\ Processed(k)
         /\ IsTextItem(k - 1) /\ IsTextItem(k)
         /\ len(stream[k - 1].content.text) <= chunk_size_default
         /\ len(stream[k].content.text) > chunk_size_default
         /\ OpenBefore(k))
        => /\ Len(ItemOps(k)) = 2
           /\ ItemOps(k)[1].op = "edit"
           /\ ItemOps(k)[1].text = Prefix(chunk_size_default)
           /\ ItemOps(k)[2].op = "send"
           /\ ItemOps(k)[2].text =
                 PySlice(stream[k].content.text, chunk_size_default,
                         len(stream[k].content.text))

IsPhotoUrl(c) == c.direct_result /\ c.kind = "photo" /\ c.format = "url"

IsPhotoCall(o) == o.op = "reply_photo"

IsDelivery(o) == o.op \in {"reply_photo", "reply_document", "reply_dice"}

\* C4 as stated: when the first item is a direct result photo/url, the finished run
\* has sent or edited no text message, has made exactly one photo-delivery call, has
\* consumed no further item and has ended as handled-direct-result.
C4_DirectPhotoFirst ==
    (/\ Len(stream) >= 1
     /\ IsPhotoUrl(stream[1].content)
     /\ pc = "done")
    => /\ Len(Renders) = 0
       /\ Len(SelectSeq(ops, IsPhotoCall)) = 1
       /\ Len(stream) = 1
       /\ outcome = "DirectResultHandled"

\* C4 amended: when the first item is a direct result photo/url, no further item is
\* consumed, nothing is edited or deleted, and at most one delivery call, a photo
\* delivery, is made; if that call succeeds, no text message is sent, nothing is
\* reported and the run ends as handled-direct-result; if it fails, the only text sent
\* is the failure message, sent once unless the task is cancelled first, and the run
\* ends as a failure; a run that ends without the call was cancelled.
C4_DirectPhotoFirstAmended ==
    (Len(stream) >= 1 /\ IsPhotoUrl(stream[1].content))
    => LET calls == SelectSeq(ops, IsDelivery)
       IN  /\ Len(stream) = 1
           /\ \A j \in 1..Len(ops) : ops[j].op \notin {"edit", "delete", "cleanup"}
           /\ Len(calls) <= 1
           /\ \A j \in 1..Len(calls) : calls[j].op = "reply_photo"
           /\ pc = "done" =>
                 IF calls = <<>> THEN outcome = "Cancelled" /\ cancelled /\ Renders = <<>>
                 ELSE IF calls[1].res = "ok"
                 THEN /\ outcome = "DirectResultHandled"
                      /\ Renders = <<>>
                      /\ reports = <<>>
                 ELSE /\ outcome \in {"Failed", "Raised", "Cancelled"}
                      /\ outcome = "Cancelled" => cancelled /\ Renders = <<>>
                      /\ outcome # "Cancelled" => Len(Renders) = 1
                      /\ \A j \in 1..Len(Renders) :
                            Renders[j].op = "send" /\ IsFailText(Renders[j].text)
                      /\ reports = <<>>

\* C4 witness: the photo of a first-item direct result was delivered
C4_Witness ==
    /\ Len(stream) = 1
    /\ IsPhotoUrl(stream[1].content)
    /\ pc = "done"
    /\ outcome = "DirectResultHandled"
    /\ Len(SelectSeq(ops, IsPhotoCall)) = 1

\* C5: when the edit of an item's content (the edit of lines 1083-1098, not the edit
\* that closes a full message) fails with RetryAfter, the driver sleeps at least
\* retry_after and attempts the edit of the same content again before it leaves the
\* item, that is before it consumes the next item or ends the loop.
C5_RetriesSameRender ==
    \A j \in 1..Len(ops) :
        (/\ ops[j].op = "edit"
         /\ ops[j].res = "RetryAfter"
         /\ ops[j].text = LastChunk(stream[ops[j].item].content.text))
        => /\ (j < Len(ops) =>
                  /\ ops[j + 1].op = "sleep"
                  /\ ops[j + 1].arg >= 5000)
           /\ (Processed(ops[j].item) =>
                  \E j2 \in (j + 1)..Len(ops) :
                      /\ ops[j2].op = "edit"
                      /\ ops[j2].text = ops[j].text
                      /\ ops[j2].item = ops[j].item)

\* C8: after a cancellation the driver consumes no further item and issues no further
\* send or edit.
C8_CancelStops ==
    cancelled =>
        /\ Len(stream) = cancel_mark.pos
        /\ \A j \in (cancel_mark.nops + 1)..Len(ops) : ~IsRender(ops[j])

\* C9: a stream consumed to its end whose last item is a non-blank Finished(n) has exactly one
\* usage report of n tokens for the user, none when n is zero, whatever failed while
\* rendering and whichever branch handled the Finished item.
C9_ExactlyOneReport ==
    (/\ pc = "done"
     /\ outcome = "Rendered"
     /\ ~cancelled
     /\ stream # <<>>
     /\ ~Unfinished
     /\ IsTextItem(Len(stream))
     /\ strip_len(item.content.text) > 0)
    => UserChatReports =
          IF tokens = 0 THEN <<>>
          ELSE <<[who |-> "user", kind |-> "chat", tokens |-> tokens]>>

\* C10: if the send that would create the first message of the stream fails, no
\* further item is consumed or rendered and the user receives the failure message.
C10_FirstSendFailureAborts ==
    \A j \in 1..Len(ops) :
        (/\ ops[j].op = "send"
         /\ ops[j].res # "ok"
         /\ ~IsFailText(ops[j].text)
         /\ \A j0 \in 1..(j - 1) : ~(ops[j0].op = "send" /\ ops[j0].res = "ok"))
        => /\ Len(stream) = ops[j].item
           /\ \A j2 \in (j + 1)..Len(ops) : IsRender(ops[j2]) => IsFailText(ops[j2].text)
           /\ (pc = "done" /\ ~cancelled =>
                  \E j2 \in (j + 1)..Len(ops) : ops[j2].op = "send" /\ IsFailText(ops[j2].text))

\* C6 as stated: of two consecutive items with identical content the second issues no
\* edit at all, or only edits that the transport answers with "not modified" (stated
\* for contents of one chunk and runs without transport failure or cancellation).
C6_SecondAbsorbed ==
    \A k \in 2..Len(stream) :
        (/\ faults = 0
         /\ Processed(k)
         /\ IsTextItem(k - 1) /\ IsTextItem(k)
         /\ stream[k].content = stream[k - 1].content
         /\ strip_len(stream[k].content.text) > 0
         /\ len(stream[k].content.text) <= chunk_size_default)
        => \A j \in 1..Len(ItemOps(k)) :
              ItemOps(k)[j].op = "edit" /\ ItemOps(k)[j].res = "NotModified"

\* no overflow split is due for the content: it is one chunk, or stream_chunk has
\* reached its last chunk
NoSplitDue(text) ==
    LET n == Len(split_into_chunks(text, chunk_size_default))
    IN  n <= 1 \/ stream_chunk = n - 1

\* the open message shows the text the loop renders for the content
Shows(text) ==
    /\ sent_message # 0
    /\ ~msgs[sent_message].deleted
    /\ msgs[sent_message].text = LastChunk(text)

\* C6 amended: if two consecutive items carry identical content and, when the second
\* arrives, the first send has been made (i > 0), no overflow split is due and the
\* open message shows that content, the second changes no message: it issues no send or delete and goes on
\* either without an edit or with one edit of the text the message shows; the
\* transport never answers that edit with success, and its "not modified" answer to
\* the first attempt is treated as success: the 0.01 s sleep follows, no exception
\* reaches the loop and backoff is not increased.
C6_SecondAbsorbedAmended ==
    [][/\ (/\ Len(stream') = Len(stream) + 1
           /\ stream # <<>>
           /\ stream'[Len(stream')].content = item.content
           /\ ~item.content.direct_result
           /\ i > 0
           /\ NoSplitDue(item.content.text)
           /\ Shows(item.content.text))
          => /\ pc' \in {"next", "cad_edit"}
             /\ pc' = "cad_edit" =>
                   edit_args'.text = msgs[sent_message].text /\ Shows(edit_args'.text)
             /\ msgs' = msgs /\ ops' = ops /\ backoff' = backoff
             /\ sent_message' = sent_message
       /\ (/\ pc \in {"cad_edit", "cad_edit2"}
           /\ Len(ops') = Len(ops) + 1
           /\ msgs[sent_message].text = edit_args.text)
          => /\ ops'[Len(ops')].res # "ok"
             /\ msgs' = msgs
             /\ (pc = "cad_edit" /\ ops'[Len(ops')].res = "NotModified")
                   => pc' = "sleep_ok" /\ backoff' = backoff
      ]_vars

\* C6 witness: the second of two identical items was edited into the message that
\* showed it already and the "not modified" answer was taken as success
C6_Witness ==
    /\ Len(stream) >= 2
    /\ stream[Len(stream)].content = stream[Len(stream) - 1].content
    /\ pc = "sleep_ok"
    /\ ops[Len(ops)].op = "edit"
    /\ ops[Len(ops)].res = "NotModified"
    /\ ops[Len(ops)].item = Len(stream)
    /\ backoff = 0

\* C7: for a fixed chat type, the cutoff is non-decreasing in the content length:
\* every shorter content has a cutoff no larger than the one just computed.
C7_CutoffMonotone ==
    call.fn = "get_stream_cutoff_values" =>
        \A a \in 0..call.length :
            get_stream_cutoff_values([chat_type |-> call.chat_type], Prefix(a)) <= ret

\* C7 witness: a group-chat content in the top tier, above a content of each lower tier
C7_Witness ==
    /\ call.fn = "get_stream_cutoff_values"
    /\ call.chat_type = "group"
    /\ call.length > 1000
    /\ ret = 180
    /\ get_stream_cutoff_values([chat_type |-> "group"], Prefix(50)) = 50
    /\ get_stream_cutoff_values([chat_type |-> "group"], Prefix(51)) = 90
    /\ get_stream_cutoff_values([chat_type |-> "group"], Prefix(201)) = 120

\* ---------------------------------------------------------------- what the user sees

\* some message of the chat is the failure text
ErrorNoteVisible == \E m \in 1..Len(msgs) : ~msgs[m].deleted /\ IsFailText(msgs[m].text)

\* every item consumed is a text item
AllText == \A k \in 1..Len(stream) : IsTextItem(k)

\* C11: after a stream of text items that ended with a non-blank Finished item, under
\* any transport failure (no cancellation), either the open message shows the final
\* content (its last chunk) or a failure text is visible.
C11_CompleteOrErrorNote ==
    (/\ pc = "done"
     /\ ~cancelled
     /\ stream # <<>>
     /\ AllText
     /\ ~Unfinished
     /\ strip_len(item.content.text) > 0)
    => Shows(item.content.text) \/ ErrorNoteVisible

\* C12: when a payload of a direct result is handed to the transport while the stream
\* has an open text message, a delete of that message was attempted first, while the
\* same item was processed.
C12_DirectDeletesText ==
    \A j \in 1..Len(ops) :
        (IsDelivery(ops[j]) /\ sent_message # 0)
        => \E j1 \in 1..(j - 1) :
              /\ ops[j1].op = "delete"
              /\ ops[j1].msg = sent_message
              /\ ops[j1].item = ops[j].item

\* ---------------------------------------------------------------- concurrent prompts and the ledger

\* prompt() tasks of one run
MaxTasks == 3

\* config.allowed_user_ids
AllowedUsers == {"u1"}

\* UsageTracker.create(user_id, name): the tracker of a key that had none
UsageTracker_create == [present |-> TRUE, chat_tokens |-> 0]

\* UsageTracker.add_chat_tokens(tokens, tokens_price): an additive update of the tracker
add_chat_tokens(tracker, used_tokens) ==
    [tracker EXCEPT !.chat_tokens = @ + used_tokens]

\* mutant: the tracker of the key is created anew whether or not there is one
ensure_tracker_always(us, key) == [us EXCEPT ![key] = UsageTracker_create]

\* if user_id not in usage: usage[user_id] = UsageTracker.create(user_id, name)
ensure_tracker(us, key) ==
    IF us[key].present THEN us ELSE [us EXCEPT ![key] = UsageTracker_create]

\* str(user_id) not in allowed_user_ids and "guests" in usage
counts_as_guest(us, user) == user \notin AllowedUsers /\ us["guests"].present

\* usage after the add_chat_tokens calls rs made for a user
RECURSIVE Recorded(_, _, _)
Recorded(us, user, rs) ==
    IF rs = <<>> THEN us
    ELSE LET key == IF Head(rs).who = "user" THEN user ELSE "guests"
         IN  Recorded([us EXCEPT ![key] = add_chat_tokens(@, Head(rs).tokens)],
                      user, Tail(rs))

InitUsage ==
    /\ call = NoCall
    /\ ret = 0
    /\ DriverIdle
    /\ LedgerIdle

\* a message of a user arrives: prompt() starts and is suspended in is_allowed
Arrive ==
    /\ Len(tasks) < MaxTasks
    /\ \E u \in Users :
          tasks' = Append(tasks, [pc |-> "is_allowed", user |-> u, total_tokens |-> 0,
                                  overlapped |-> FALSE])
    /\ UNCHANGED <<usage, call, ret>>
    /\ UNCHANGED driver_vars
    /\ UNCHANGED inline_queries_cache

\* is_within_budget: the tracker of the user is created if there is none, then the
\* budget decides whether the stream is started
Check(t) ==
    /\ tasks[t].pc = "is_allowed"
    /\ usage' = ensure_tracker(usage, tasks[t].user)
    /\ \E within \in BOOLEAN :
          tasks' = [tasks EXCEPT ![t].pc = IF within THEN "streaming" ELSE "rejected"]
    /\ UNCHANGED <<call, ret>>
    /\ UNCHANGED driver_vars
    /\ UNCHANGED inline_queries_cache

\* the stream is exhausted with total_tokens = tok, and with no await in between
\* add_chat_request_to_usage_tracker(usage, config, user_id, total_tokens) runs
Finish(t) ==
    /\ tasks[t].pc = "streaming"
    /\ \E tok \in TokenCounts :
          /\ tasks' = [tasks EXCEPT ![t].pc = "done", ![t].total_tokens = tok,
                                    ![t].overlapped =
                                        \E o \in 1..Len(tasks) :
                                            /\ o # t
                                            /\ tasks[o].user = tasks[t].user
                                            /\ tasks[o].pc = "streaming"]
          /\ usage' = Recorded(usage, tasks[t].user,
                               add_chat_request_to_usage_tracker(
                                   counts_as_guest(usage, tasks[t].user), tok))
    /\ UNCHANGED <<call, ret>>
    /\ UNCHANGED driver_vars
    /\ UNCHANGED inline_queries_cache

\* an exception ends the stream: the chat_fail reply, and no usage is recorded
Abort(t) ==
    /\ tasks[t].pc = "streaming"
    /\ tasks' = [tasks EXCEPT ![t].pc = "failed"]
    /\ UNCHANGED <<usage, call, ret>>
    /\ UNCHANGED driver_vars
    /\ UNCHANGED inline_queries_cache

NextUsage ==
    \/ Arrive
    \/ \E t \in 1..Len(tasks) : Check(t)
    \/ \E t \in 1..Len(tasks) : Finish(t)
    \/ \E t \in 1..Len(tasks) : Abort(t)

SpecUsage == InitUsage /\ [][NextUsage]_vars

\* the token counts of the finished streams of a user, summed over tasks 1..n
RECURSIVE ReportedSum(_, _)
ReportedSum(user, n) ==
    IF n = 0 THEN 0
    ELSE ReportedSum(user, n - 1)
         + (IF tasks[n].user = user /\ tasks[n].pc = "done" THEN tasks[n].total_tokens ELSE 0)

\* C13: whatever the interleaving of the streams of a user, the chat tokens recorded
\* for the user equal the sum of the token counts of the user's finished streams.
C13_NoIncrementLost ==
    \A u \in Users : usage[u].chat_tokens = ReportedSum(u, Len(tasks))

\* C13 witness: three streams of one user, two of which finished while another was
\* still streaming, have all reported 12 tokens
C13_Witness ==
    /\ Len(tasks) = 3
    /\ \A t \in 1..3 : tasks[t].user = "u1" /\ tasks[t].pc = "done" /\ tasks[t].total_tokens = 12
    /\ tasks[1].overlapped /\ tasks[2].overlapped
    /\ usage["u1"].chat_tokens = 36

IsDelete(o) == o.op = "delete"

\* C14: during one stream at most one delete_message is handed to the transport.
C14_AtMostOneDelete == Len(SelectSeq(ops, IsDelete)) <= 1

\* the call just handed to the transport (in a step that made one)
LastOp == ops[Len(ops)]

\* a transport error: any answer but success and "not modified"
IsFailure(res) == res \notin {"ok", "NotModified"}

\* C15: a failed edit, or a failed send of the overflow branch, leaves the driver
\* inside the loop: the exception reaches no handler outside it, the stream stays open
\* and the run has not ended; after the sleep of a handler the loop goes on to the
\* next item.
C15_RenderFailureAbsorbed ==
    [][/\ (/\ Len(ops') = Len(ops) + 1
           /\ pc \in {"ovf_edit", "ovf_edit2", "ovf_send", "cad_edit", "cad_edit2"}
           /\ IsFailure(ops'[Len(ops')].res))
          => /\ pc' \in {"ovf_edit2", "ovf_send", "cad_edit2", "sleep_retry",
                         "sleep_timeout", "next"}
             /\ stream_open'
             /\ outcome' = "none"
       /\ (pc \in {"sleep_retry", "sleep_timeout"} /\ ~cancelled')
          => pc' = "next" /\ stream_open' /\ outcome' = "none"
      ]_vars

\* C15 witness: an edit failed, the next item was consumed and the run ended normally
C15_Witness ==
    /\ pc = "done"
    /\ outcome = "Rendered"
    /\ \E j \in 1..Len(ops) :
          /\ ops[j].op = "edit"
          /\ ops[j].res \in {"RetryAfter", "TimedOut", "Error"}
          /\ ops[j].item < Len(stream)

\* the backend stream has raised
UpstreamFailed == caught.type = "Upstream"

\* C16: once the backend stream has raised, no further item is consumed, no message
\* is edited or deleted, no usage is reported, and the one call the driver still makes
\* (unless the task is cancelled first) is the send of the failure text that carries
\* the message of the backend's exception; the text is in the chat unless the
\* transport fails that send.
C16_UpstreamErrorAborts ==
    [][/\ UpstreamFailed' =>
             /\ stream' = stream
             /\ reports' = <<>>
             /\ SubSeq(msgs', 1, Len(msgs)) = msgs
             /\ pc' \in {"fail_reply", "done"}
       /\ (UpstreamFailed /\ pc = "fail_reply" /\ ~cancelled') =>
             /\ Len(ops') = Len(ops) + 1
             /\ ops'[Len(ops')].op = "send"
             /\ ops'[Len(ops')].text = [lit |-> "chat_fail", err |-> "Upstream",
                                        lo |-> 0, hi |-> 1]
             /\ pc' = "done"
             /\ IF ops'[Len(ops')].res = "ok"
                THEN /\ msgs' = Append(msgs, [text |-> ops'[Len(ops')].text,
                                              deleted |-> FALSE])
                     /\ outcome' = "Failed"
                ELSE msgs' = msgs /\ outcome' = "Raised"
       /\ (UpstreamFailed /\ pc = "done") => ops' = ops /\ msgs' = msgs
      ]_vars

\* C16 witness: the stream raised after two items were rendered into a message, and
\* the failure text was sent next to it
C16_Witness ==
    /\ UpstreamFailed
    /\ pc = "done"
    /\ outcome = "Failed"
    /\ Len(stream) = 2
    /\ Len(msgs) = 2
    /\ msgs[1].text = stream[2].content.text
    /\ msgs[2].text.lit = "chat_fail"
    /\ msgs[2].text.err = "Upstream"
    /\ reports = <<>>

\* the text the open message shows
Rendered == msgs[sent_message].text

\* C17: for a non-blank text item that arrives after the first send (i > 0) and needs
\* no overflow split, the driver issues an edit if and only if the item is Finished
\* or the length of the candidate differs from the length of the text rendered last
\* by more than get_stream_cutoff_values + backoff.
C17_CadenceRule ==
    [][(/\ Len(stream') = Len(stream) + 1
        /\ ~stream'[Len(stream')].content.direct_result
        /\ strip_len(stream'[Len(stream')].content.text) > 0
        /\ i > 0
        /\ sent_message # 0
        /\ stream_chunk' = stream_chunk)
       => LET it == stream'[Len(stream')]
              candidate == LastChunk(it.content.text)
          IN  (pc' = "cad_edit")
              <=> \/ it.tokens # not_finished
                  \/ Abs(len(candidate) - len(Rendered))
                        > get_stream_cutoff_values(update, candidate) + backoff
      ]_vars

\* the edit that closes a message with a complete chunk: the overflow edit, which
\* succeeded and left the chunk as the text of the message
IsFinalizing(o) ==
    /\ o.op = "edit"
    /\ o.res = "ok"
    /\ len(o.text) = chunk_size_default
    /\ LastChunk(stream[o.item].content.text) # o.text

\* C18: a message closed with a complete chunk by the overflow edit is not edited
\* again: no later edit of the stream names that message.
C18_FinalizedNeverEdited ==
    \A j \in 1..Len(ops) :
        IsFinalizing(ops[j])
        => \A j2 \in (j + 1)..Len(ops) :
              ops[j2].op = "edit" => ops[j2].msg # ops[j].msg

\* the messages of the chat that were not deleted, in the order they were sent
Visible == SelectSeq(msgs, LAMBDA m : ~m.deleted)

\* the texts are consecutive slices of the answer that start at 0 and end at n
RECURSIVE Covers(_, _, _)
Covers(texts, from, n) ==
    IF texts = <<>> THEN from = n
    ELSE /\ Head(texts).text.lit = ""
         /\ Head(texts).text.lo = from
         /\ Covers(Tail(texts), Head(texts).text.hi, n)

\* C19: after a stream of text items that ended with a non-blank Finished item and met
\* no transport failure or cancellation, the texts of the messages, in the order they
\* were sent, concatenate to the final cumulative content.
C19_MessagesConcatenate ==
    (/\ pc = "done"
     /\ faults = 0
     /\ stream # <<>>
     /\ AllText
     /\ ~Unfinished
     /\ strip_len(item.content.text) > 0)
    => Covers(Visible, 0, len(item.content.text))

\* C20: backoff is 0 when the loop starts and never decreases; it changes only by
\* backoff_step, only in a step of the cadence edit whose answer is a rate limit, a
\* timeout or another transport error, and once for every cadence edit that ends
\* with such an answer; a successful edit, a "not modified" answer and the calls of
\* the first send and of the overflow branch leave it unchanged.
C20_BackoffSteps ==
    [][/\ (pc = "typing" => backoff = 0)
       /\ backoff' >= backoff
       /\ backoff' # backoff =>
             /\ backoff' = backoff + 5
             /\ pc \in {"cad_edit", "cad_edit2"}
             /\ Len(ops') = Len(ops) + 1
             /\ ops'[Len(ops')].op = "edit"
             /\ ops'[Len(ops')].res \in {"RetryAfter", "TimedOut", "Error", "BadRequest"}
       /\ (/\ pc \in {"cad_edit", "cad_edit2"}
           /\ Len(ops') = Len(ops) + 1
           /\ pc' # "cad_edit2"
           /\ ops'[Len(ops')].res \in {"RetryAfter", "TimedOut", "Error", "BadRequest"})
          => backoff' = backoff + 5
       /\ (Len(ops') = Len(ops) + 1 /\ ops'[Len(ops')].res \in {"ok", "NotModified"})
          => backoff' = backoff
       /\ pc \in {"first_delete", "first_send", "ovf_edit", "ovf_edit2", "ovf_send"}
          => backoff' = backoff
      ]_vars

\* C21: an item whose content is empty or only whitespace makes the driver hand
\* nothing to the transport and leaves the open message, prev, backoff, i and
\* stream_chunk as they were; the loop goes on to the next item.
C21_BlankItemSkipped ==
    [][(/\ Len(stream') = Len(stream) + 1
        /\ ~stream'[Len(stream')].content.direct_result
        /\ stream'[Len(stream')].content.text.hi <= leading_ws)
       => /\ ops' = ops
          /\ msgs' = msgs
          /\ sent_message' = sent_message
          /\ prev' = prev
          /\ backoff' = backoff
          /\ i' = i
          /\ stream_chunk' = stream_chunk
          /\ pc' = "next"
      ]_vars

\* C21 witness: an empty item and then an item of whitespace only were consumed, and
\* nothing but the chat action was handed to the transport
C21_Witness ==
    /\ Len(stream) = 2
    /\ stream[1].content = TextContent(0)
    /\ stream[2].content = TextContent(9)
    /\ leading_ws = 9
    /\ pc = "next"
    /\ Len(ops) = 1
    /\ msgs = <<>>
    /\ i = 0

\* C22: every text handed to a send or an edit while an item of the stream is
\* processed has at least one and at most 4096 characters.
C22_TextWithinLimit ==
    \A j \in 1..Len(ops) :
        (IsRender(ops[j]) /\ ops[j].item >= 1)
        => len(ops[j].text) >= 1 /\ len(ops[j].text) <= 4096

\* C22 witness: a content of 8193 characters was rendered as an edit of 4096
\* characters and a send of one character
C22_Witness ==
    /\ stream # <<>>
    /\ len(item.content.text) = 8193
    /\ \E j \in 1..Len(ops) :
          ops[j].op = "edit" /\ ops[j].item = Len(stream) /\ len(ops[j].text) = 4096
    /\ \E j \in 1..Len(ops) :
          ops[j].op = "send" /\ ops[j].item = Len(stream) /\ len(ops[j].text) = 1

\* ---------------------------------------------------------------- inline mode

\* the variables of prompt() that the other handlers neither read nor write
prompt_vars == <<update, leading_ws, stream, stream_open, pc, i, prev, sent_message,
                 backoff, stream_chunk, total_tokens, is_image, content,
                 edit_args, caught, msgs, outcome, cancelled, cancel_mark>>

\* inline queries answered in one run
MaxQueries == 1
\* button callbacks handled in one run
MaxCallbacks == 2
\* stream items consumed by one callback
MaxInlineItems == 2

\* len(query) of the inline queries (inline_query ignores queries shorter than 3)
QueryLens == {3}

\* len(localized_text("answer", bot_language))
answer_tr_len == 6

\* lengths of the cumulative contents the backend yields to a callback
InlineLens == {0, 9, 4090}

InlineItems ==
    [content : {TextContent(n) : n \in InlineLens}, tokens : {not_finished, 12}]
    \cup
    [content : {DirectContent("photo", "url")}, tokens : {not_finished}]

\* f"{query}\n\n{divider}{answer_tr}:{divider}\n{content}", divider being "_" or ""
InlineText(query, divider, text) ==
    [lit |-> "inline", lo |-> 0,
     hi |-> query + 2 + divider + answer_tr_len + 1 + divider + 1 + len(text)]

\* the fixed texts the callback edits into the inline message
ErrorMessage == [lit |-> "error. try_again", lo |-> 0, hi |-> 1]

UnavailableMessage == [lit |-> "function_unavailable_in_inline_mode", lo |-> 0, hi |-> 1]

\* no edit_message_with_retry call is in progress
NoEdit == [text |-> EmptyText, markdown |-> FALSE]

\* the locals of a handle_callback_inline_query task when it starts: n is the number of
\* items consumed, content and tokens are those of the last one
NewCallback(id) ==
    [pc |-> "start", unique_id |-> id, query |-> 0, n |-> 0, content |-> EmptyText,
     tokens |-> not_finished, i |-> 0, prev |-> EmptyText, backoff |-> 0,
     total_tokens |-> 0, attempt |-> 1, edit_args |-> NoEdit, caught |-> NoError]

\* the handler has returned or raised: its locals are gone, what stays is which query
\* it served
InlineLeft(T, how) == [NewCallback(T.unique_id) EXCEPT !.pc = how, !.query = T.query]

InitInline ==
    /\ call = NoCall
    /\ ret = 0
    /\ DriverIdle
    /\ LedgerIdle

\* inline_query: a query of at least 3 characters that passes
\* check_allowed_and_within_budget is stored under a fresh result id, and the result
\* card with the button is answered
inline_query ==
    /\ Len(inline_queries_cache) < MaxQueries
    /\ \E q \in QueryLens, allowed \in BOOLEAN :
          IF allowed
          THEN inline_queries_cache' = Append(inline_queries_cache, q)
          ELSE UNCHANGED inline_queries_cache
    /\ UNCHANGED <<usage, tasks, call, ret, ops, faults, reports>>
    /\ UNCHANGED prompt_vars

\* mutant: the entry stays in the cache
cache_pop_keeps(cache, id) == cache

\* self.inline_queries_cache.pop(unique_id): the entry is gone (0 stands for no entry)
cache_pop(cache, id) == [cache EXCEPT ![id] = 0]

\* handle_callback_inline_query up to its first await: the query is taken out of the
\* cache and the stream is requested, or the error text is about to be edited in
InlineCallback ==
    /\ Len(tasks) < MaxCallbacks
    /\ \E id \in 1..Len(inline_queries_cache) :
          LET q == inline_queries_cache[id]
          IN  IF q # 0
              THEN /\ inline_queries_cache' = cache_pop(inline_queries_cache, id)
                   /\ tasks' = Append(tasks, [NewCallback(id) EXCEPT !.query = q, !.pc = "next"])
              ELSE /\ tasks' = Append(tasks,
                                      [NewCallback(id) EXCEPT
                                          !.pc = "err_edit",
                                          !.edit_args = [text |-> ErrorMessage,
                                                         markdown |-> TRUE]])
                   /\ UNCHANGED inline_queries_cache
    /\ UNCHANGED <<usage, call, ret, ops, faults, reports>>
    /\ UNCHANGED prompt_vars

\* the loop body of the callback for the item just yielded, up to its first await
InlineProcess(T, it) ==
    LET cutoff == get_stream_cutoff_values([chat_type |-> "none"], it.content.text) + T.backoff
        finished == it.tokens # not_finished
        divider == IF finished THEN 1 ELSE 0
        advanced == [T EXCEPT !.i = @ + 1,
                              !.total_tokens = IF finished THEN it.tokens ELSE @]
    IN  IF is_direct_result(it.content)
        THEN [T EXCEPT !.pc = "direct_edit", !.attempt = 1,
                       !.edit_args = [text |-> UnavailableMessage, markdown |-> TRUE]]
        ELSE IF strip_len(it.content.text) = 0 THEN T
        ELSE IF T.i = 0
        THEN [T EXCEPT !.pc = "first_edit", !.attempt = 1,
                       !.edit_args = [text |-> InlineText(T.query, 0, it.content.text),
                                      markdown |-> TRUE]]
        ELSE IF Abs(len(it.content.text) - len(T.prev)) > cutoff \/ finished
        THEN [T EXCEPT !.pc = "cad_edit", !.attempt = 1,
                       !.prev = it.content.text,
                       !.edit_args =
                           [text |-> PySlice(InlineText(T.query, divider, it.content.text),
                                             0, 4096),
                            markdown |-> finished]]
        ELSE advanced

\* no item with a token count, which ends the stream, was yielded to the callback yet
InlineUnfinished(T) == T.tokens = not_finished

\* async for content, tokens in stream_response: the next item arrives
InlineNextItem(t) ==
    /\ tasks[t].pc = "next"
    /\ tasks[t].n < MaxInlineItems
    /\ InlineUnfinished(tasks[t])
    /\ \E it \in InlineItems :
          /\ len(tasks[t].content) <= len(it.content.text)
          /\ tasks' = [tasks EXCEPT ![t] =
                          InlineProcess([@ EXCEPT !.n = @ + 1,
                                                  !.content = it.content.text,
                                                  !.tokens = it.tokens], it)]
    /\ UNCHANGED <<inline_queries_cache, usage, call, ret, ops, faults, reports>>
    /\ UNCHANGED prompt_vars

\* the generator is exhausted: add_chat_request_to_usage_tracker, and the handler returns
InlineEnd(t) ==
    /\ tasks[t].pc = "next"
    /\ reports' = reports \o add_chat_request_to_usage_tracker(FALSE, tasks[t].total_tokens)
    /\ tasks' = [tasks EXCEPT ![t] = InlineLeft(@, "done")]
    /\ UNCHANGED <<inline_queries_cache, usage, call, ret, ops, faults>>
    /\ UNCHANGED prompt_vars

\* the exception handler of the callback: the chat_fail text is edited into the message
InlineFailed(T, exc) ==
    [T EXCEPT !.pc = "fail_edit", !.attempt = 1, !.caught = exc,
              !.edit_args = [text |-> chat_fail(exc), markdown |-> TRUE]]

\* the generator raises
InlineStreamError(t) ==
    /\ tasks[t].pc = "next"
    /\ InlineUnfinished(tasks[t])
    /\ tasks' = [tasks EXCEPT ![t] = InlineFailed(@, [type |-> "Upstream", retry_after |-> 0])]
    /\ UNCHANGED <<inline_queries_cache, usage, call, ret, ops, faults, reports>>
    /\ UNCHANGED prompt_vars

\* the answers of edit_message_text for an inline message
InlineAnswers ==
    {[res |-> "ok", out |-> NoError]} \cup
    IF faults < MaxFaults
    THEN {[res |-> "NotModified", out |-> NoError]} \cup
         {[res |-> o.type, out |-> o] : o \in Outcomes(EditFailures) \ {NoError}}
    ELSE {}

\* where the callback goes after edit_message_with_retry returned
InlineReturned(T) ==
    IF T.pc = "first_edit"
    THEN [T EXCEPT !.pc = "next", !.i = @ + 1, !.edit_args = NoEdit, !.attempt = 1,
                   !.total_tokens = IF T.tokens # not_finished THEN T.tokens ELSE @]
    ELSE IF T.pc = "cad_edit" THEN [T EXCEPT !.pc = "sleep_ok", !.edit_args = NoEdit,
                                             !.attempt = 1]
    ELSE InlineLeft(T, "done")

\* where the callback goes after edit_message_with_retry raised
InlineRaised(T, exc) ==
    IF T.pc = "first_edit" THEN [T EXCEPT !.pc = "next", !.edit_args = NoEdit, !.attempt = 1]
    ELSE IF T.pc = "cad_edit"
    THEN [T EXCEPT !.backoff = @ + backoff_step, !.edit_args = NoEdit, !.attempt = 1,
                   !.caught = IF exc.type = "RetryAfter" THEN exc ELSE NoError,
                   !.pc = IF exc.type = "RetryAfter" THEN "sleep_retry"
                          ELSE IF exc.type = "TimedOut" THEN "sleep_timeout"
                          ELSE "next"]
    ELSE IF T.pc \in {"direct_edit", "err_edit"} THEN InlineFailed(T, exc)
    ELSE [InlineLeft(T, "raised") EXCEPT !.caught = exc]

\* one edit_message_text of edit_message_with_retry(..., is_inline=True), which hands
\* edit_args.text to the transport
InlineEdit(t) ==
    /\ tasks[t].pc \in {"first_edit", "cad_edit", "direct_edit", "err_edit", "fail_edit"}
    /\ \E a \in InlineAnswers :
          LET T == tasks[t]
              step == edit_message_with_retry(T.attempt, a.res)
          IN  /\ faults' = faults + (IF a.res = "ok" THEN 0 ELSE 1)
              /\ tasks' = [tasks EXCEPT ![t] =
                              IF step = "return" THEN InlineReturned(T)
                              ELSE IF step = "plain" THEN [T EXCEPT !.attempt = 2]
                              ELSE InlineRaised(T, Raised(a.res, a.out))]
    /\ UNCHANGED <<inline_queries_cache, usage, call, ret, ops, reports>>
    /\ UNCHANGED prompt_vars

\* the sleeps of the cadence branch
InlineSleep(t) ==
    /\ tasks[t].pc \in {"sleep_retry", "sleep_timeout", "sleep_ok"}
    /\ tasks' = [tasks EXCEPT ![t] =
                    IF tasks[t].pc = "sleep_ok"
                    THEN [@ EXCEPT !.pc = "next", !.i = @ + 1,
                                   !.total_tokens = IF tasks[t].tokens # not_finished
                                                    THEN tasks[t].tokens ELSE @]
                    ELSE [@ EXCEPT !.pc = "next", !.caught = NoError]]
    /\ UNCHANGED <<inline_queries_cache, usage, call, ret, ops, faults, reports>>
    /\ UNCHANGED prompt_vars

NextInline ==
    \/ inline_query
    \/ InlineCallback
    \/ \E t \in 1..Len(tasks) : InlineNextItem(t)
    \/ \E t \in 1..Len(tasks) : InlineEnd(t)
    \/ \E t \in 1..Len(tasks) : InlineStreamError(t)
    \/ \E t \in 1..Len(tasks) : InlineEdit(t)
    \/ \E t \in 1..Len(tasks) : InlineSleep(t)

SpecInline == InitInline /\ [][NextInline]_vars

\* the callback is about to hand edit_args.text to the transport
InlineEditing(T) ==
    T.pc \in {"first_edit", "cad_edit", "direct_edit", "err_edit", "fail_edit"}

\* C23: every text a callback hands to the transport as an edit of the inline message
\* while it streams an answer is at most 4096 characters long.
C23_InlineWithinLimit ==
    \A t \in 1..Len(tasks) :
        (InlineEditing(tasks[t]) /\ tasks[t].edit_args.text.lit = "inline")
        => len(tasks[t].edit_args.text) <= 4096


\* ---- check_allowed_and_within_budget ----

\* user_budget["total_payment"] of get_the_total_user_budget(status="active")
PaymentTotals == {0, 5}

\* get_current_cost()[budget_cost_map[budget_period]]
Costs == {0, 2, 5, 7}

\* is_allowed: the admin and the users of allowed_user_ids may use the bot
is_allowed(c) == c.admin \/ c.listed

\* get_remaining_budget: infinite for the admin, raises ValueError when the active payments
\* are not positive, else the active payments minus the cost of the budget period
get_remaining_budget(c) ==
    IF c.admin THEN [raised |-> FALSE, inf |-> TRUE, value |-> 0]
    ELSE IF c.total_payment <= 0 THEN [raised |-> TRUE, inf |-> FALSE, value |-> 0]
    ELSE [raised |-> FALSE, inf |-> FALSE, value |-> c.total_payment - c.cost]

\* is_within_budget: remaining_budget > 0, unless get_remaining_budget raised
is_within_budget(c) ==
    LET remaining_budget == get_remaining_budget(c)
    IN  IF remaining_budget.raised THEN "raised"
        ELSE IF remaining_budget.inf \/ remaining_budget.value > 0 THEN "True"
        ELSE "False"

InitBudget ==
    /\ call = NoCall
    /\ ret = 0
    /\ DriverIdle
    /\ LedgerIdle

\* a message or an inline query arrives and its handler calls
\* check_allowed_and_within_budget
BudgetArrive ==
    /\ call = NoCall
    /\ \E u \in Users, inline \in BOOLEAN, listed \in BOOLEAN, admin \in BOOLEAN,
          p \in PaymentTotals, c \in Costs :
          call' = [fn |-> "check_allowed_and_within_budget", pc |-> "is_allowed",
                   user |-> u, is_inline |-> inline, listed |-> listed, admin |-> admin,
                   total_payment |-> p, cost |-> c, sent |-> "none", result |-> "none"]
    /\ UNCHANGED <<usage, tasks, ret>>
    /\ UNCHANGED driver_vars
    /\ UNCHANGED inline_queries_cache

\* is_allowed, then is_within_budget, which creates the user's tracker if there is none
BudgetCheck ==
    /\ call.fn = "check_allowed_and_within_budget"
    /\ call.pc = "is_allowed"
    /\ IF ~is_allowed(call)
       THEN /\ call' = [call EXCEPT !.pc = "send_disallowed_message"]
            /\ UNCHANGED usage
       ELSE /\ usage' = ensure_tracker(usage, call.user)
            /\ call' = LET within == is_within_budget(call)
                       IN  IF within = "raised" THEN [call EXCEPT !.pc = "raised"]
                           ELSE IF within = "True"
                           THEN [call EXCEPT !.pc = "returned", !.result = "True"]
                           ELSE [call EXCEPT !.pc = "send_budget_reached_message"]
    /\ UNCHANGED <<tasks, ret>>
    /\ UNCHANGED driver_vars
    /\ UNCHANGED inline_queries_cache

\* send_disallowed_message or send_budget_reached_message, then return False
BudgetSend ==
    /\ call.fn = "check_allowed_and_within_budget"
    /\ call.pc \in {"send_disallowed_message", "send_budget_reached_message"}
    /\ call' = [call EXCEPT !.sent = call.pc, !.pc = "returned", !.result = "False"]
    /\ UNCHANGED <<usage, tasks, ret>>
    /\ UNCHANGED driver_vars
    /\ UNCHANGED inline_queries_cache

\* if not await self.check_allowed_and_within_budget(update, context): return
\* and otherwise the handler goes on to the request to the AI backend
BudgetCaller ==
    /\ call.fn = "check_allowed_and_within_budget"
    /\ call.pc = "returned"
    /\ call' = [call EXCEPT !.pc = IF call.result = "True" THEN "backend" ELSE "dropped"]
    /\ UNCHANGED <<usage, tasks, ret>>
    /\ UNCHANGED driver_vars
    /\ UNCHANGED inline_queries_cache

\* the handler is over: it returned, or the exception left it
BudgetLeave ==
    /\ call.fn = "check_allowed_and_within_budget"
    /\ call.pc \in {"backend", "dropped", "raised"}
    /\ call' = NoCall
    /\ UNCHANGED <<usage, tasks, ret>>
    /\ UNCHANGED driver_vars
    /\ UNCHANGED inline_queries_cache

NextBudget ==
    \/ BudgetArrive
    \/ BudgetCheck
    \/ BudgetSend
    \/ BudgetCaller
    \/ BudgetLeave

SpecBudget == InitBudget /\ [][NextBudget]_vars

\* check_allowed_and_within_budget is past its checks and its messages
BudgetDecided(c) == c.pc \in {"returned", "backend", "dropped", "raised"}

\* C24: check_allowed_and_within_budget always returns a boolean; for a user who is not
\* the admin it returns True only with a positive remaining budget; and when the remaining
\* budget of an allowed user is not positive, a user without active payment included, the
\* budget-reached message is sent, False is returned and no backend request is started.
C24_BudgetCheckReturnsBoolean ==
    call.fn = "check_allowed_and_within_budget" =>
        /\ call.pc # "raised"
        /\ (call.result = "True" /\ ~call.admin) => call.total_payment - call.cost > 0
        /\ (BudgetDecided(call) /\ is_allowed(call) /\ ~call.admin
              /\ call.total_payment - call.cost <= 0)
           => (call.sent = "send_budget_reached_message" /\ call.result = "False")
        /\ call.pc = "backend" => call.result = "True"


\* the callbacks for result id that took its query out of the cache and asked the backend
Served(id) == {t \in 1..Len(tasks) : tasks[t].unique_id = id /\ tasks[t].query # 0}

\* the callbacks for result id that found no entry
Late(id) == {t \in 1..Len(tasks) : tasks[t].unique_id = id /\ tasks[t].query = 0}

\* the callbacks that reached add_chat_request_to_usage_tracker
Reporting == {t \in 1..Len(tasks) : tasks[t].query # 0 /\ tasks[t].pc = "done"}

\* C25: a stored inline query triggers at most one backend request: the callback that
\* asks the backend has removed the entry, and every other callback for the id, also one
\* that runs while the first is suspended, only edits the error text into the message
\* and reaches neither the backend nor the usage ledger.
C25_OneRequestPerQuery ==
    /\ \A id \in 1..Len(inline_queries_cache) :
          /\ Cardinality(Served(id)) <= 1
          /\ Served(id) # {} => inline_queries_cache[id] = 0
          /\ \A t \in Late(id) :
                /\ Served(id) # {}
                /\ \A s \in Served(id) : s < t
                /\ tasks[t].pc \in {"err_edit", "fail_edit", "done", "raised"}
                /\ tasks[t].pc = "err_edit" => tasks[t].edit_args.text = ErrorMessage
                /\ tasks[t].n = 0
    /\ Len(reports) <= Cardinality(Reporting)

\* a second callback for the same id has edited the error text in while the first one,
\* which took the query, is suspended in its stream
C25_Witness ==
    \E s, t \in 1..Len(tasks) :
        /\ tasks[s].unique_id = tasks[t].unique_id
        /\ tasks[s].query # 0
        /\ tasks[s].pc \in {"next", "first_edit", "cad_edit", "sleep_ok"}
        /\ tasks[s].n > 0
        /\ tasks[t].query = 0
        /\ tasks[t].pc = "done"


\* ---- wrap_with_indicator ----

\* wait rounds of one wrap_with_indicator call
MaxRounds == 3
\* steps the wrapped coroutine takes before it ends
MaxWork == 2

\* how the wrapped coroutine ends: it returns, raises, or raises asyncio.TimeoutError
TaskEnds == {"done", "failed", "failed_timeout"}

\* mutant: the wait is not shielded, the timeout cancels the wrapped task
on_timeout_unshielded(T) == [T EXCEPT !.pc = "cancelled", !.cancel_calls = @ + 1]

\* asyncio.wait_for(asyncio.shield(task), 4.5) times out: the shield is cancelled, the
\* wrapped task is left alone
on_timeout(T) == T

InitIndicator ==
    /\ call = NoCall
    /\ ret = 0
    /\ DriverIdle
    /\ LedgerIdle

\* task = context.application.create_task(coroutine(), update=update)
WrapStart ==
    /\ call = NoCall
    /\ \E inline \in BOOLEAN, w \in 1..MaxWork :
          /\ call' = [fn |-> "wrap_with_indicator", pc |-> "test", is_inline |-> inline,
                      rounds |-> 0, scheduled |-> 0, pending |-> 0]
          /\ tasks' = <<[pc |-> "pending", work |-> w, cancel_calls |-> 0]>>
    /\ UNCHANGED <<usage, ret>>
    /\ UNCHANGED driver_vars
    /\ UNCHANGED inline_queries_cache

\* while not task.done(): the indicator is scheduled unless is_inline, then the wait starts
WrapRound ==
    /\ call.fn = "wrap_with_indicator"
    /\ call.pc = "test"
    /\ IF tasks[1].pc # "pending"
       THEN call' = [call EXCEPT !.pc = "returned"]
       ELSE /\ call.rounds < MaxRounds
            /\ call' = [call EXCEPT !.pc = "waiting", !.rounds = @ + 1,
                                    !.scheduled = IF call.is_inline THEN @ ELSE @ + 1,
                                    !.pending = IF call.is_inline THEN @ ELSE @ + 1]
    /\ UNCHANGED <<usage, tasks, ret>>
    /\ UNCHANGED driver_vars
    /\ UNCHANGED inline_queries_cache

\* the wrapped coroutine runs one step, or ends
TaskStep ==
    /\ call.fn = "wrap_with_indicator"
    /\ tasks[1].pc = "pending"
    /\ IF tasks[1].work > 1
       THEN tasks' = [tasks EXCEPT ![1].work = @ - 1]
       ELSE \E e \in TaskEnds : tasks' = [tasks EXCEPT ![1].pc = e, ![1].work = 0]
    /\ UNCHANGED <<usage, call, ret>>
    /\ UNCHANGED driver_vars
    /\ UNCHANGED inline_queries_cache

\* await asyncio.wait_for(asyncio.shield(task), 4.5) is over: the task ended, or the 4.5
\* seconds passed; except asyncio.TimeoutError: pass
WaitOver ==
    /\ call.fn = "wrap_with_indicator"
    /\ call.pc = "waiting"
    /\ IF tasks[1].pc = "pending"
       THEN /\ tasks' = [tasks EXCEPT ![1] = on_timeout(@)]
            /\ call' = [call EXCEPT !.pc = "test"]
       ELSE /\ call' = [call EXCEPT !.pc = IF tasks[1].pc \in {"failed", "cancelled"}
                                           THEN "raised" ELSE "test"]
            /\ UNCHANGED tasks
    /\ UNCHANGED <<usage, ret>>
    /\ UNCHANGED driver_vars
    /\ UNCHANGED inline_queries_cache

\* wrap_with_indicator is cancelled while it waits: CancelledError leaves it, the shield
\* keeps the wrapped task running
WrapCancelled ==
    /\ call.fn = "wrap_with_indicator"
    /\ call.pc = "waiting"
    /\ call' = [call EXCEPT !.pc = "raised"]
    /\ UNCHANGED <<usage, tasks, ret>>
    /\ UNCHANGED driver_vars
    /\ UNCHANGED inline_queries_cache

\* a scheduled update.effective_chat.send_action(chat_action) task runs
IndicatorRun ==
    /\ call.fn = "wrap_with_indicator"
    /\ call.pending > 0
    /\ call' = [call EXCEPT !.pending = @ - 1]
    /\ UNCHANGED <<usage, tasks, ret>>
    /\ UNCHANGED driver_vars
    /\ UNCHANGED inline_queries_cache

\* the call is over and so are its tasks
WrapLeave ==
    /\ call.fn = "wrap_with_indicator"
    /\ call.pc \in {"returned", "raised"}
    /\ call.pending = 0
    /\ tasks[1].pc # "pending"
    /\ call' = NoCall
    /\ tasks' = <<>>
    /\ UNCHANGED <<usage, ret>>
    /\ UNCHANGED driver_vars
    /\ UNCHANGED inline_queries_cache

NextIndicator ==
    \/ WrapStart
    \/ WrapRound
    \/ TaskStep
    \/ WaitOver
    \/ WrapCancelled
    \/ IndicatorRun
    \/ WrapLeave

SpecIndicator == InitIndicator /\ [][NextIndicator]_vars

\* what holds of a wrap_with_indicator call in every state
IndicatorState ==
    call.fn = "wrap_with_indicator" =>
        /\ call.pc = "returned" => tasks[1].pc # "pending"
        /\ tasks[1].cancel_calls = 0
        /\ tasks[1].pc # "cancelled"
        /\ call.scheduled = (IF call.is_inline THEN 0 ELSE call.rounds)

\* a step that starts a wait round
RoundStarts ==
    /\ call.fn = "wrap_with_indicator"
    /\ call'.fn = "wrap_with_indicator"
    /\ call'.rounds # call.rounds

\* C26: wrap_with_indicator returns only after the wrapped task is done, its timeouts never
\* cancel the wrapped task, and for a non-inline update one chat-action indicator has been
\* scheduled for every wait round started (none for an inline update), a round starting
\* only while the task is not done.
C26_IndicatorRounds ==
    /\ []IndicatorState
    /\ [][RoundStarts => (tasks[1].pc = "pending" /\ call'.pc = "waiting"
                           /\ call'.rounds = call.rounds + 1)]_vars

\* a non-inline call has returned after a wait that timed out and a second round
C26_Witness ==
    /\ call.fn = "wrap_with_indicator"
    /\ call.pc = "returned"
    /\ ~call.is_inline
    /\ call.rounds >= 2
    /\ call.scheduled >= 2
    /\ tasks[1].pc = "done"


\* the driver with the scheduling of the event loop: a coroutine that can take a step
\* takes one
SpecLive == Spec /\ WF_vars(Next)

\* the edit_message_with_retry calls among the operations os of one item: an edit that
\* does not follow an edit answered BadRequest is the first attempt of a call
EditCalls(os) ==
    Cardinality({j \in 1..Len(os) :
                    /\ os[j].op = "edit"
                    /\ (j = 1 \/ os[j - 1].op # "edit" \/ os[j - 1].res # "BadRequest")})

CountOf(os, op) == Cardinality({j \in 1..Len(os) : os[j].op = op})

\* the operations of the loop body appear in the order of the items they belong to
InItemOrder ==
    \A a, b \in 1..Len(ops) :
        (a < b /\ ops[a].item > 0 /\ ops[b].item > 0) => ops[a].item <= ops[b].item

\* at most one delete, one edit_message_with_retry call and one reply_text per item
ItemOpsBounded ==
    \A k \in 1..Len(stream) :
        /\ CountOf(ItemOps(k), "delete") <= 1
        /\ EditCalls(ItemOps(k)) <= 1
        /\ CountOf(ItemOps(k), "send") <= 1
        /\ EditCalls(ItemOps(k)) + CountOf(ItemOps(k), "send") <= 2

\* C27: for every finite stream and every pattern of transport failures the streaming
\* loop comes to its end; the items are worked off once each and in order, and for each
\* item the driver issues at most one delete and at most two send-or-edit calls (at most
\* one edit_message_with_retry call and at most one reply_text): nothing is retried
\* without bound.
C27_LoopTerminates ==
    /\ <>(pc = "done")
    /\ [](InItemOrder /\ ItemOpsBounded)

\* a run with a transport failure has ended after an item that took an edit and a send
C27_Witness ==
    /\ pc = "done"
    /\ faults > 0
    /\ Len(stream) = MaxItems
    /\ \E k \in 1..Len(stream) :
          EditCalls(ItemOps(k)) + CountOf(ItemOps(k), "send") = 2


\* the successful sends of the loop before operation j
SendsBefore(j) == {a \in 1..(j - 1) : ops[a].op = "send" /\ ops[a].res = "ok"}

\* the largest element of a non-empty set of numbers
MaxOf(S) == CHOOSE a \in S : \A b \in S : b <= a

\* C28: no edit is handed to the transport before a send of the stream has succeeded, and
\* every edit handed to the transport targets the message that the most recent successful
\* send of the stream returned.
C28_EditTargetsLastSend ==
    \A j \in 1..Len(ops) :
        ops[j].op = "edit" =>
            /\ SendsBefore(j) # {}
            /\ ops[j].msg = ops[MaxOf(SendsBefore(j))].msg

\* an edit went to the second message of the stream, sent by the overflow branch
C28_Witness ==
    \E j \in 1..Len(ops) :
        /\ ops[j].op = "edit"
        /\ ops[j].res = "ok"
        /\ Cardinality(SendsBefore(j)) = 2
        /\ ops[j].msg = 2
        /\ ops[j].msg = sent_message


\* the sends and edits of the stream that succeeded, in order
Succeeded == SelectSeq(ops, LAMBDA o : IsRender(o) /\ o.res = "ok")

\* C29: when the loop is about to take a cadence decision (a first send happened, the next
\* item is awaited), the variable prev used for the delta equals the text of the most
\* recent successful send or edit of the stream.
C29_PrevIsLastRendered ==
    (pc = "next" /\ i > 0 /\ Succeeded # <<>>)
    => prev = Succeeded[Len(Succeeded)].text


\* ---- redeem_callback ----

\* len(redeem_query) of the message that carries the code
CodeLens == {0, 15, 16, 17}

\* what gift_card_redeem_code of the provider does with the code: it redeems it, it
\* answers without success (anis_redeem_code raises ValueError), or the call fails
ProviderAnswers == {"success", "no_success", "error"}

\* resp["data"]["identityNo"] of a redemption: "redeem<user_id>-...", "<user_id>-...",
\* or a number that does not carry the id of the caller
IdentityNos == {"redeem_uid", "uid", "other"}

\* resp["data"]["amount"]
Amounts == {5, 10}

\* payment_switcher(user_payment_choice="anis-usdt") -> anis_redeem -> anis_redeem_code:
\* a plain function that returns the tuple (None, resp) or raises
payment_switcher(answer) ==
    IF answer = "success" THEN [raised |-> "none", value |-> "tuple"]
    ELSE IF answer = "no_success" THEN [raised |-> "ValueError", value |-> "none"]
    ELSE [raised |-> "Error", value |-> "none"]

\* await of the value of a call: a tuple is not awaitable
await_value(r) ==
    IF r.raised # "none" THEN r.raised
    ELSE IF r.value = "tuple" THEN "TypeError"
    ELSE "none"

InitRedeem ==
    /\ call = NoCall
    /\ ret = 0
    /\ DriverIdle
    /\ LedgerIdle

\* the message with the code arrives in the REDEEM_CODE state of the conversation
RedeemArrive ==
    /\ call = NoCall
    /\ \E u \in Users, n \in CodeLens, a \in ProviderAnswers, id \in IdentityNos,
          amount \in Amounts :
          call' = [fn |-> "redeem_callback", pc |-> "working", user |-> u, code_len |-> n,
                   provider |-> a, identity |-> id, amount |-> amount,
                   contacted |-> FALSE, balance |-> 0, replies |-> <<>>,
                   result |-> "none", caught |-> "none"]
    /\ UNCHANGED <<usage, tasks, ret>>
    /\ UNCHANGED driver_vars
    /\ UNCHANGED inline_queries_cache

\* await update.message.reply_text("redeem_working_on_it")
RedeemWorking ==
    /\ call.fn = "redeem_callback"
    /\ call.pc = "working"
    /\ call' = [call EXCEPT !.pc = "check", !.replies = Append(@, "redeem_working_on_it")]
    /\ UNCHANGED <<usage, tasks, ret>>
    /\ UNCHANGED driver_vars
    /\ UNCHANGED inline_queries_cache

\* an empty, a short or a long code: the reply, then return
RedeemReject ==
    /\ call.fn = "redeem_callback"
    /\ call.pc = "check"
    /\ call.code_len # 16
    /\ call' = [call EXCEPT !.pc = "returned", !.result = "None",
                            !.replies = Append(@, IF call.code_len = 0 THEN "redeem_no_prompt"
                                                  ELSE IF call.code_len < 16
                                                  THEN "short_redeem_code"
                                                  ELSE "long_redeem_code")]
    /\ UNCHANGED <<usage, tasks, ret>>
    /\ UNCHANGED driver_vars
    /\ UNCHANGED inline_queries_cache

\* _, resp = await payment_switcher(user_id, redeem_card, "anis-usdt"): the provider is
\* asked to redeem the code, and the value of the call is awaited
RedeemProvider ==
    /\ call.fn = "redeem_callback"
    /\ call.pc = "check"
    /\ call.code_len = 16
    /\ call' = LET exc == await_value(payment_switcher(call.provider))
               IN  IF exc # "none"
                   THEN [call EXCEPT !.contacted = TRUE, !.pc = "raised", !.caught = exc]
                   ELSE [call EXCEPT !.contacted = TRUE, !.pc = "resp"]
    /\ UNCHANGED <<usage, tasks, ret>>
    /\ UNCHANGED driver_vars
    /\ UNCHANGED inline_queries_cache

\* the handler is over
RedeemLeave ==
    /\ call.fn = "redeem_callback"
    /\ call.pc \in {"returned", "raised"}
    /\ call' = NoCall
    /\ UNCHANGED <<usage, tasks, ret>>
    /\ UNCHANGED driver_vars
    /\ UNCHANGED inline_queries_cache

NextRedeem ==
    \/ RedeemArrive
    \/ RedeemWorking
    \/ RedeemReject
    \/ RedeemProvider
    \/ RedeemLeave

SpecRedeem == InitRedeem /\ [][NextRedeem]_vars

\* C30: a code whose length is not 16 is rejected without the provider being contacted
\* and without a change of balance; and when the provider has redeemed a code and the
\* identity number carries the id of the caller, the handler ends with the balance
\* increased by the amount, once, and with the conversation ended.
C30_RedeemCredits ==
    call.fn = "redeem_callback" =>
        /\ call.code_len # 16 => (~call.contacted /\ call.balance = 0)
        /\ (/\ call.pc \in {"returned", "raised"}
            /\ call.code_len = 16
            /\ call.provider = "success"
            /\ call.identity \in {"redeem_uid", "uid"})
           => (call.balance = call.amount /\ call.result = "END")

====
